---- MODULE Spec2Model ----
(***************************************************************************)
(* Model of the credential and session-token core of the IESA backend:     *)
(* backend/app/routers/auth.py (register, login, refresh, logout) over     *)
(* backend/app/core/auth.py (password hashing, refresh token creation and  *)
(* decoding) and the users / refresh_tokens collections of the MongoDB     *)
(* store, with the unique indexes the repository's set-up scripts create.  *)
(*                                                                         *)
(* Every request handler in flight is a record in the bag `calls';         *)
(* one action is one stretch of handler code that ends at a store call     *)
(* (an await), so handlers interleave exactly at their awaits.             *)
(***************************************************************************)
EXTENDS Integers, Sequences, FiniteSets, Bags, TLC

VARIABLES
    users,           \* the users collection, in insertion order (_id = position)
    refresh_tokens,  \* the refresh_tokens collection, in insertion order
    userIndexes,     \* the unique indexes in place on users, in creation order
    settings,        \* the process environment read when the modules are imported
    held,            \* a token handed out earlier, with the arguments it was made from
    calls,           \* the bag of request handlers in flight
    now,             \* wall clock, in days
    nextJti,         \* source of fresh jti values (secrets.token_urlsafe(16))
    nextFamily,      \* source of fresh family values (secrets.token_urlsafe(32))
    last,            \* the response the step just taken returned, if it returned one
    rotated,         \* history: {[from, to]} for every successor issued by refresh
    loggedOut,       \* history: families a logout has revoked
    revokedFamilies  \* history: families _revoke_token_family has run for

vars == <<users, refresh_tokens, userIndexes, settings, held, calls, now, nextJti, nextFamily,
          last, rotated, loggedOut, revokedFamilies>>

-----------------------------------------------------------------------------
(* Bounds of the model *)

MaxCalls == 2
MaxTokens == 3
MaxUsers == 3
MaxNow == 14

(* Program constants *)

REFRESH_TOKEN_EXPIRE_DAYS == 7
ACCESS_TOKEN_EXPIRE_MINUTES == 15
MinPasswordLength == 8
MaxPasswordLength == 128

-----------------------------------------------------------------------------
(* Values *)

NoneVal == "<none>"
Missing == "<missing>"

AdminEmail == "admin@iesa.ui.edu.ng"
StudentEmail == "test@stu.ui.edu.ng"
NewEmail == "new@stu.ui.edu.ng"
Emails == {StudentEmail, NewEmail}

AdminPassword == <<"A", "d", "m", "i", "n", "P", "a", "s", "s", "1", "!">>
StudentPassword == <<"T", "e", "s", "t", "P", "a", "s", "s", "1", "!">>
NoUpperPassword == <<"n", "o", "u", "p", "p", "e", "r", "c", "a", "s", "e", "1", "!">>
ShortPassword == <<"s", "h", "o", "r", "t">>
Passwords == {StudentPassword, NoUpperPassword, ShortPassword}

LegacyEmail == "admin@iesa.edu"
LegacyUid == "TEMP_ADMIN_UID"
LegacyMatric == "ADM/2024/001"
UnknownUid == "uid-without-profile"

StudentMatric == "123456"
Matrics == {NoneVal}

UpperChars == {"A", "P", "T"}
LowerChars == {"a", "c", "d", "e", "h", "i", "m", "n", "o", "p", "r", "s", "t", "u"}
DigitChars == {"1"}
SpecialChars == {"!"}

CurrentParams == [time_cost |-> 3, memory_cost |-> 65536, parallelism |-> 4,
                  hash_len |-> 32, salt_len |-> 16]
OldParams == [time_cost |-> 2, memory_cost |-> 65536, parallelism |-> 4,
              hash_len |-> 32, salt_len |-> 16]

NoHash == [pw |-> <<>>, params |-> CurrentParams]

NoToken == [typ |-> "none", sub |-> 0, family |-> 0, jti |-> 0, exp |-> 0,
            key |-> NoneVal]
GarbageToken == [typ |-> "garbage", sub |-> 0, family |-> 0, jti |-> 0, exp |-> 0,
                 key |-> NoneVal]
NoAccess == [typ |-> "none", sub |-> 0, email |-> NoneVal, role |-> NoneVal,
             exp |-> 0, key |-> NoneVal]

InvalidCredentialsMsg == "Invalid email or password"
DeactivatedMsg == "Account is deactivated. Contact admin."
DuplicateEmailMsg == "An account with this email already exists"
NoTokenMsg == "No refresh token provided"
InvalidTokenMsg == "Invalid or expired refresh token"
NotRecognizedMsg == "Refresh token not recognized. All sessions revoked for security."
ReuseMsg == "Refresh token reuse detected. All sessions revoked for security."
UserNotFoundMsg == "User not found"
LoggedOutMsg == "Logged out successfully"
ValidationFailedMsg == "Validation failed"
OkMsg == "ok"
NotAuthenticatedMsg == "Not authenticated"
InvalidBearerMsg == "Invalid authentication credentials"
ProfileNotFoundMsg == "User profile not found. Please complete your profile setup."
CannotChangeMsg == "Cannot change password"
WrongCurrentMsg == "Current password is incorrect"
PasswordChangedMsg == "Password changed successfully"

Range(s) == {s[i] : i \in DOMAIN s}

-----------------------------------------------------------------------------
(* core/auth.py: password hashing *)

(* a hasher left at the parameters the stored hashes were made with *)
hash_password_Stale(password) == [pw |-> password, params |-> OldParams]

hash_password(password) == [pw |-> password, params |-> CurrentParams]

verify_password(password, hashed) == hashed # NoHash /\ hashed.pw = password

check_needs_rehash(hashed) == hashed.params # CurrentParams

(* core/auth.py: password strength policy; the result is <<is_valid, error>> *)
validate_password_strength(password) ==
    IF Len(password) < MinPasswordLength
    THEN <<FALSE, "Password must be at least 8 characters long">>
    ELSE IF ~ \E i \in DOMAIN password : password[i] \in UpperChars
    THEN <<FALSE, "Password must contain at least one uppercase letter">>
    ELSE IF ~ \E i \in DOMAIN password : password[i] \in LowerChars
    THEN <<FALSE, "Password must contain at least one lowercase letter">>
    ELSE IF ~ \E i \in DOMAIN password : password[i] \in DigitChars
    THEN <<FALSE, "Password must contain at least one digit">>
    ELSE IF ~ \E i \in DOMAIN password : password[i] \in SpecialChars
    THEN <<FALSE, "Password must contain at least one special character">>
    ELSE <<TRUE, "">>

(* RegisterRequest.password: Field(min_length=8, max_length=128) *)
RegisterRequestValid(password) ==
    Len(password) >= MinPasswordLength /\ Len(password) <= MaxPasswordLength

-----------------------------------------------------------------------------
(* core/auth.py: the signing secrets and the token codecs.  A signed token *)
(* is the record of its claims together with the secret that signed it.    *)

(* secrets.token_urlsafe(64), evaluated once for each of the two defaults *)
GeneratedAccessSecret == "token_urlsafe(64)#1"
GeneratedRefreshSecret == "token_urlsafe(64)#2"

Environment ==
    IF settings.ENVIRONMENT = Missing THEN "development" ELSE settings.ENVIRONMENT

SECRET_KEY ==
    IF settings.JWT_SECRET_KEY = Missing THEN GeneratedAccessSecret
    ELSE settings.JWT_SECRET_KEY

REFRESH_SECRET_KEY ==
    IF settings.JWT_REFRESH_SECRET_KEY = Missing THEN GeneratedRefreshSecret
    ELSE settings.JWT_REFRESH_SECRET_KEY

(* nothing set in the environment *)
DefaultSettings ==
    [ENVIRONMENT |-> Missing, JWT_SECRET_KEY |-> Missing,
     JWT_REFRESH_SECRET_KEY |-> Missing]

MinutesPerDay == 24 * 60

(* a payload without the jti claim *)
create_refresh_token_NoJti(user_id, family, jti, t) ==
    [typ |-> "refresh", sub |-> user_id, family |-> family, jti |-> 0,
     exp |-> t + REFRESH_TOKEN_EXPIRE_DAYS, key |-> REFRESH_SECRET_KEY]

create_refresh_token(user_id, family, jti, t) ==
    [typ |-> "refresh", sub |-> user_id, family |-> family, jti |-> jti,
     exp |-> t + REFRESH_TOKEN_EXPIRE_DAYS, key |-> REFRESH_SECRET_KEY]

(* the exp claim in minutes: refresh tokens carry it in days *)
ExpMinutes(token) ==
    IF token.typ = "refresh" THEN token.exp * MinutesPerDay ELSE token.exp

(* a decoder that leaves out the check of the type claim *)
decode_refresh_token_AnyType(token, t) ==
    IF token.key # REFRESH_SECRET_KEY THEN "JWTError"
    ELSE IF ExpMinutes(token) < t * MinutesPerDay THEN "ExpiredSignatureError"
    ELSE "ok"

(* jwt.decode verifies the signature and the expiry, then the type check; *)
(* the result is "ok" or the name of the exception raised                  *)
decode_refresh_token(token, t) ==
    IF token.key # REFRESH_SECRET_KEY THEN "JWTError"
    ELSE IF ExpMinutes(token) < t * MinutesPerDay THEN "ExpiredSignatureError"
    ELSE IF token.typ # "refresh" THEN "JWTError"
    ELSE "ok"

(* a decoder that lets an expired token through *)
decode_refresh_ok_IgnoringExpiry(token, t) ==
    decode_refresh_token(token, t) \in {"ok", "ExpiredSignatureError"}

decode_refresh_ok(token, t) == decode_refresh_token(token, t) = "ok"

(* an encoder that issues every token with the default role *)
create_access_token_DefaultRole(user_id, email, role, t) ==
    [typ |-> "access", sub |-> user_id, email |-> email, role |-> "student",
     exp |-> t * MinutesPerDay + ACCESS_TOKEN_EXPIRE_MINUTES, key |-> SECRET_KEY]

(* claims sub, email, role, type "access" and exp, in minutes *)
create_access_token(user_id, email, role, t) ==
    [typ |-> "access", sub |-> user_id, email |-> email, role |-> role,
     exp |-> t * MinutesPerDay + ACCESS_TOKEN_EXPIRE_MINUTES, key |-> SECRET_KEY]

decode_access_token(token, t) ==
    IF token.key # SECRET_KEY THEN "JWTError"
    ELSE IF ExpMinutes(token) < t * MinutesPerDay THEN "ExpiredSignatureError"
    ELSE IF token.typ # "access" THEN "JWTError"
    ELSE "ok"

NothingHeld == [token |-> NoToken, args |-> <<>>]

-----------------------------------------------------------------------------
(* The store *)

(* users.find_one({"email": email}): position of the first match, 0 if none *)
FindUserByEmail(us, email) ==
    IF \E i \in DOMAIN us : us[i].email = email
    THEN CHOOSE i \in DOMAIN us :
            /\ us[i].email = email
            /\ \A j \in DOMAIN us : us[j].email = email => i <= j
    ELSE 0

(* refresh_tokens.find_one({"token": token}) *)
FindToken(rts, token) ==
    IF \E i \in DOMAIN rts : rts[i].token = token
    THEN CHOOSE i \in DOMAIN rts :
            /\ rts[i].token = token
            /\ \A j \in DOMAIN rts : rts[j].token = token => i <= j
    ELSE 0

(* key of a document under a single-field index: a missing field is null *)
IndexKey(doc, field) == IF doc[field] = Missing THEN NoneVal ELSE doc[field]

(* a sparse index holds only the documents that have the field *)
Indexed(doc, idx) == ~ idx.sparse \/ doc[idx.field] # Missing

(* a collection whose indexes are not unique *)
IndexViolated_NotEnforced(us, doc, idx) == FALSE

IndexViolated(us, doc, idx) ==
    /\ idx.unique
    /\ Indexed(doc, idx)
    /\ \E i \in DOMAIN us :
          /\ Indexed(us[i], idx)
          /\ IndexKey(us[i], idx.field) = IndexKey(doc, idx.field)

(* users.insert_one(doc): the field of the first violated unique index,    *)
(* "none" when the insert is accepted                                       *)
DupKeyField(us, doc, idxs) ==
    IF \E k \in DOMAIN idxs : IndexViolated(us, doc, idxs[k])
    THEN idxs[CHOOSE k \in DOMAIN idxs :
                /\ IndexViolated(us, doc, idxs[k])
                /\ \A j \in DOMAIN idxs : IndexViolated(us, doc, idxs[j]) => k <= j].field
    ELSE "none"

(* error_handling.mongodb_exception_handler on DuplicateKeyError *)
DuplicateKeyMsg(field) ==
    IF field = "email" THEN "A record with this email already exists"
    ELSE IF field = "matricNumber" THEN "A record with this matricNumber already exists"
    ELSE IF field = "firebaseUid" THEN "A record with this firebaseUid already exists"
    ELSE "A record with this unknown already exists"

(* insert_one called twice *)
StoreRefreshToken_Twice(rts, user_id, token, family, expires_at) ==
    Append(Append(rts, [token |-> token, userId |-> user_id, family |-> family,
                        expiresAt |-> expires_at, isRevoked |-> FALSE]),
           [token |-> token, userId |-> user_id, family |-> family,
            expiresAt |-> expires_at, isRevoked |-> FALSE])

(* _store_refresh_token *)
StoreRefreshToken(rts, user_id, token, family, expires_at) ==
    Append(rts, [token |-> token, userId |-> user_id, family |-> family,
                 expiresAt |-> expires_at, isRevoked |-> FALSE])

(* update_many({}) in place of update_many({"family": family}) *)
RevokeTokenFamily_Everyone(rts, family) ==
    [i \in DOMAIN rts |-> [rts[i] EXCEPT !.isRevoked = TRUE]]

(* _revoke_token_family: update_many({"family": family}, isRevoked = True) *)
RevokeTokenFamily(rts, family) ==
    [i \in DOMAIN rts |->
        IF rts[i].family = family THEN [rts[i] EXCEPT !.isRevoked = TRUE] ELSE rts[i]]

(* the modified_count of that update_one: 0 when the record is revoked already *)
ModifiedCount(rts, id) == IF rts[id].isRevoked THEN 0 ELSE 1

(* a rotation that leaves the consumed record as it was *)
RevokeById_NoOp(rts, id) == rts

(* update_one({"_id": stored["_id"]}, isRevoked = True) *)
RevokeById(rts, id) == [rts EXCEPT ![id].isRevoked = TRUE]

-----------------------------------------------------------------------------
(* Set-up scripts: the unique indexes on users and the seeded identities *)

CreateIndexesScript ==
    << [field |-> "firebaseUid", unique |-> TRUE, sparse |-> FALSE],
       [field |-> "email", unique |-> TRUE, sparse |-> TRUE],
       [field |-> "matricNumber", unique |-> TRUE, sparse |-> TRUE] >>

(* init_db followed by fix_cloud_users: firebaseUid_1 is dropped and        *)
(* recreated non-unique and sparse                                          *)
FixCloudUsersIndexes ==
    << [field |-> "firebaseUid", unique |-> FALSE, sparse |-> TRUE],
       [field |-> "email", unique |-> TRUE, sparse |-> FALSE] >>

UserDoc(email, hashed, matric, role) ==
    [email |-> email, passwordHash |-> hashed, matricNumber |-> matric,
     firebaseUid |-> Missing, role |-> role, isActive |-> TRUE, lastLogin |-> 0]

(* init_db.create_indexes *)
InitDbIndexes ==
    << [field |-> "firebaseUid", unique |-> TRUE, sparse |-> FALSE],
       [field |-> "email", unique |-> TRUE, sparse |-> FALSE] >>

(* init_db.create_admin_user, then scripts/reset_password.py for its email *)
InitDbAdmin(password) ==
    << [UserDoc(LegacyEmail, hash_password(password), LegacyMatric, "admin")
          EXCEPT !.firebaseUid = LegacyUid] >>

(* fix_cloud_users seeds the admin and the test student *)
FixCloudUsersSeed(params) ==
    << UserDoc(AdminEmail, [pw |-> AdminPassword, params |-> params], Missing, "admin"),
       UserDoc(StudentEmail, [pw |-> StudentPassword, params |-> params],
               StudentMatric, "student") >>

-----------------------------------------------------------------------------
(* Request handlers *)

IdleCall == [op |-> "none", pc |-> "idle", email |-> NoneVal, password |-> <<>>,
             matric |-> NoneVal, role |-> NoneVal, token |-> NoToken,
             stored |-> 0, uid |-> 0, at |-> 0, recRevoked |-> FALSE, prior |-> FALSE, afterLogout |-> FALSE,
             lostRace |-> FALSE]

REFRESH_COOKIE_NAME == "refresh_token"

(* _set_refresh_cookie: the Set-Cookie headers it leaves on the response *)
set_refresh_cookie(token) ==
    {[key |-> REFRESH_COOKIE_NAME, value |-> token, httponly |-> TRUE]}

NoResponse == [op |-> "none", status |-> 0, detail |-> NoneVal,
               cookie |-> "none", cookies |-> {}, input |-> NoToken,
               refresh |-> NoToken, access |-> NoAccess, cause |-> "none",
               at |-> 0, recRevoked |-> FALSE, prior |-> FALSE, afterLogout |-> FALSE,
             lostRace |-> FALSE, asked |-> NoneVal]

InFlight == BagToSet(calls)

NoneInFlight == calls = EmptyBag

(* the runtime serves up to MaxCalls requests at a time *)
CanArrive == BagCardinality(calls) < MaxCalls

(* the requests in flight that store a refresh token before they return *)
Issuing == {r \in BagToSet(calls) : r.pc \notin {"idle", "rf_family"}}

(* a request that is to issue a token is taken up while a jti is left for  *)
(* it and for every request already on its way to issuing one              *)
CanIssue ==
    (nextJti - 1) + BagCardinality([r \in Issuing |-> CopiesIn(r, calls)]) < MaxTokens

Enter(r) == calls (+) SetToBag({r})

Leave(r) == calls (-) SetToBag({r})

Move(r, q) == (calls (-) SetToBag({r})) (+) SetToBag({q})

Respond(op, status, detail, cookie, fields) ==
    last' = [op |-> op, status |-> status, detail |-> detail,
             cookie |-> cookie,
             cookies |-> IF cookie = "set" THEN set_refresh_cookie(fields.refresh)
                         ELSE {},
             input |-> fields.input,
             refresh |-> fields.refresh, access |-> fields.access,
             cause |-> fields.cause, at |-> fields.at,
             recRevoked |-> fields.recRevoked, prior |-> fields.prior,
             afterLogout |-> fields.afterLogout, lostRace |-> fields.lostRace,
             asked |-> fields.asked]

Fields(r, cause) ==
    [input |-> r.token, refresh |-> NoToken,
     access |-> NoAccess, cause |-> cause, at |-> r.at,
     recRevoked |-> r.recRevoked, prior |-> r.prior,
     afterLogout |-> r.afterLogout, lostRace |-> r.lostRace,
     asked |-> IF r.op = "register" THEN r.role ELSE NoneVal]

StartFields(token, cause) ==
    [input |-> token, refresh |-> NoToken, access |-> NoAccess,
     cause |-> cause, at |-> now, recRevoked |-> FALSE, prior |-> FALSE,
     afterLogout |-> FALSE, lostRace |-> FALSE, asked |-> NoneVal]

-----------------------------------------------------------------------------
(* The service starts with no request in flight and no token issued *)
Idle ==
    /\ held = NothingHeld
    /\ refresh_tokens = <<>>
    /\ calls = EmptyBag
    /\ now = 0
    /\ nextJti = 1
    /\ nextFamily = 1
    /\ last = NoResponse
    /\ rotated = {}
    /\ loggedOut = {}
    /\ revokedFamilies = {}

Started == settings = DefaultSettings /\ Idle

(* a database set up by init_db and fix_cloud_users while the hasher was   *)
(* configured with other parameters: the seeded identities exist           *)
Init ==
    /\ userIndexes = FixCloudUsersIndexes
    /\ users = FixCloudUsersSeed(OldParams)
    /\ Started

(* a database set up by create_indexes: no identity yet *)
SeqInit ==
    /\ userIndexes = CreateIndexesScript
    /\ users = <<>>
    /\ Started

IdentityInit == Init \/ SeqInit

(* a database set up by init_db, whose administrator was given a password  *)
(* with scripts/reset_password.py                                           *)
PasswordInit ==
    /\ userIndexes = InitDbIndexes
    /\ users = InitDbAdmin(StudentPassword)
    /\ Started

(* a database set up by init_db: its administrator has no passwordHash     *)
(* until scripts/reset_password.py is run for it                           *)
MaintenanceInit ==
    \/ PasswordInit
    \/ /\ userIndexes = InitDbIndexes
       /\ users = <<[InitDbAdmin(StudentPassword)[1] EXCEPT !.passwordHash = NoHash]>>
       /\ Started

(* what the environment can hold when the process starts *)
SettingsChoices ==
    [ENVIRONMENT : {Missing, "production"},
     JWT_SECRET_KEY : {Missing, "secret-a"},
     JWT_REFRESH_SECRET_KEY : {Missing, "secret-a", "secret-b"}]

(* the process has started, under any environment, on the init_db database *)
CodecInit ==
    /\ settings \in SettingsChoices
    /\ userIndexes = InitDbIndexes
    /\ users = InitDbAdmin(StudentPassword)
    /\ Idle

-----------------------------------------------------------------------------
(* POST /auth/register *)

(* request validation, password policy and the email look-up *)
RegisterFind(email, password, matric, role) ==
    /\ CanArrive
    /\ UNCHANGED <<users, refresh_tokens, userIndexes, settings, held, now, nextJti, nextFamily,
                   rotated, loggedOut, revokedFamilies>>
    /\ IF ~ RegisterRequestValid(password)
       THEN /\ Respond("register", 422, ValidationFailedMsg, "none",
                       StartFields(NoToken, "request_invalid"))
            /\ UNCHANGED calls
       ELSE IF ~ validate_password_strength(password)[1]
       THEN /\ Respond("register", 400, validate_password_strength(password)[2], "none",
                       StartFields(NoToken, "weak_password"))
            /\ UNCHANGED calls
       ELSE IF FindUserByEmail(users, email) # 0
       THEN /\ Respond("register", 409, DuplicateEmailMsg, "none",
                       StartFields(NoToken, "email_exists"))
            /\ UNCHANGED calls
       ELSE /\ CanIssue
            /\ calls' = Enter(
                            [IdleCall EXCEPT !.op = "register", !.pc = "reg_insert",
                                             !.email = email, !.password = password,
                                             !.matric = matric, !.role = role,
                                             !.at = now])
            /\ last' = NoResponse

(* a user_doc that takes its role from the request *)
RegisterInsert_RequestedRole(r) ==
    /\ r \in InFlight
    /\ r.pc = "reg_insert"
    /\ UNCHANGED <<refresh_tokens, userIndexes, settings, held, now, nextJti, nextFamily, rotated,
                   loggedOut, revokedFamilies>>
    /\ LET doc == UserDoc(r.email, hash_password(r.password),
                          r.matric, r.role)
           dup == DupKeyField(users, doc, userIndexes)
       IN IF dup # "none" \/ Len(users) >= MaxUsers
          THEN /\ dup # "none"
               /\ Respond("register", 409, DuplicateKeyMsg(dup), "none",
                          Fields(r, "duplicate_key"))
               /\ calls' = Leave(r)
               /\ UNCHANGED users
          ELSE /\ users' = Append(users, doc)
               /\ calls' = Move(r, [r EXCEPT !.pc = "reg_store", !.uid = Len(users) + 1])
               /\ last' = NoResponse

(* users.insert_one(user_doc), under the unique indexes of the collection *)
RegisterInsert(r) ==
    /\ r \in InFlight
    /\ r.pc = "reg_insert"
    /\ UNCHANGED <<refresh_tokens, userIndexes, settings, held, now, nextJti, nextFamily, rotated,
                   loggedOut, revokedFamilies>>
    /\ LET doc == UserDoc(r.email, hash_password(r.password),
                          r.matric, "student")
           dup == DupKeyField(users, doc, userIndexes)
       IN IF dup # "none" \/ Len(users) >= MaxUsers
          THEN /\ dup # "none"
               /\ Respond("register", 409, DuplicateKeyMsg(dup), "none",
                          Fields(r, "duplicate_key"))
               /\ calls' = Leave(r)
               /\ UNCHANGED users
          ELSE /\ users' = Append(users, doc)
               /\ calls' = Move(r, [r EXCEPT !.pc = "reg_store", !.uid = Len(users) + 1])
               /\ last' = NoResponse

(* create_access_token, create_refresh_token, _store_refresh_token, cookie *)
RegisterStore(r) ==
    /\ r \in InFlight
    /\ r.pc = "reg_store"
    /\ nextJti <= MaxTokens
    /\ LET token == create_refresh_token(r.uid, nextFamily, nextJti, now)
       IN /\ refresh_tokens' = StoreRefreshToken(refresh_tokens, r.uid, token,
                                                 token.family, token.exp)
          /\ Respond("register", 200, OkMsg, "set",
                     [Fields(r, "ok") EXCEPT
                        !.refresh = token,
                        !.access = create_access_token(r.uid, r.email,
                                                       "student", now)])
    /\ nextJti' = nextJti + 1
    /\ nextFamily' = nextFamily + 1
    /\ calls' = Leave(r)
    /\ UNCHANGED <<users, userIndexes, settings, held, now, rotated, loggedOut, revokedFamilies>>

-----------------------------------------------------------------------------
(* POST /auth/login *)

(* a look-up failure reported apart from a credential failure *)
LoginFailure_Enumerating(cause) ==
    IF cause = "inactive" THEN <<403, DeactivatedMsg>>
    ELSE IF cause = "no_user" THEN <<404, UserNotFoundMsg>>
    ELSE <<401, InvalidCredentialsMsg>>

(* the HTTPException each failed credential check raises: <<status, detail>> *)
LoginFailure(cause) ==
    IF cause = "inactive"
    THEN <<403, DeactivatedMsg>>
    ELSE <<401, InvalidCredentialsMsg>>

(* a rejection that clears the refresh cookie *)
LoginReject_ClearingCookie(cause) ==
    /\ Respond("login", LoginFailure(cause)[1], LoginFailure(cause)[2], "cleared",
               StartFields(NoToken, cause))
    /\ UNCHANGED calls

(* raise HTTPException: the request ends, no cookie is touched *)
LoginReject(cause) ==
    /\ Respond("login", LoginFailure(cause)[1], LoginFailure(cause)[2], "none",
               StartFields(NoToken, cause))
    /\ UNCHANGED calls

(* the look-up by email and the three credential checks *)
LoginFind(email, password) ==
    /\ CanArrive
    /\ UNCHANGED <<users, refresh_tokens, userIndexes, settings, held, now, nextJti, nextFamily,
                   rotated, loggedOut, revokedFamilies>>
    /\ LET uid == FindUserByEmail(users, email)
       IN IF uid = 0
          THEN LoginReject("no_user")
          ELSE IF users[uid].passwordHash = NoHash
          THEN LoginReject("no_hash")
          ELSE IF ~ users[uid].isActive
          THEN LoginReject("inactive")
          ELSE IF ~ verify_password(password, users[uid].passwordHash)
          THEN LoginReject("bad_password")
          ELSE /\ CanIssue
               /\ calls' = Enter(
                              [IdleCall EXCEPT
                                 !.op = "login",
                                 !.pc = IF check_needs_rehash(users[uid].passwordHash)
                                        THEN "login_rehash" ELSE "login_last",
                                 !.email = users[uid].email, !.password = password,
                                 !.role = users[uid].role, !.uid = uid, !.at = now])
               /\ last' = NoResponse

(* users.update_one(passwordHash = hash_password(password)) *)
LoginRehash(r) ==
    /\ r \in InFlight
    /\ r.pc = "login_rehash"
    /\ users' = [users EXCEPT ![r.uid].passwordHash =
                                  hash_password(r.password)]
    /\ calls' = Move(r, [r EXCEPT !.pc = "login_last"])
    /\ UNCHANGED <<refresh_tokens, userIndexes, settings, held, now, nextJti, nextFamily,
                   rotated, loggedOut, revokedFamilies>>
    /\ last' = NoResponse

(* users.update_one(lastLogin = now) *)
LoginLast(r) ==
    /\ r \in InFlight
    /\ r.pc = "login_last"
    /\ users' = [users EXCEPT ![r.uid].lastLogin = now]
    /\ calls' = Move(r, [r EXCEPT !.pc = "login_store"])
    /\ UNCHANGED <<refresh_tokens, userIndexes, settings, held, now, nextJti, nextFamily,
                   rotated, loggedOut, revokedFamilies>>
    /\ last' = NoResponse

(* create_access_token, create_refresh_token (new family), _store_refresh_token *)
LoginStore(r) ==
    /\ r \in InFlight
    /\ r.pc = "login_store"
    /\ nextJti <= MaxTokens
    /\ LET token == create_refresh_token(r.uid, nextFamily, nextJti, now)
       IN /\ refresh_tokens' = StoreRefreshToken(refresh_tokens, r.uid, token,
                                                 token.family, token.exp)
          /\ Respond("login", 200, OkMsg, "set",
                     [Fields(r, "ok") EXCEPT
                        !.refresh = token,
                        !.access = create_access_token(r.uid, r.email,
                                                       r.role, now)])
    /\ nextJti' = nextJti + 1
    /\ nextFamily' = nextFamily + 1
    /\ calls' = Leave(r)
    /\ UNCHANGED <<users, userIndexes, settings, held, now, rotated, loggedOut, revokedFamilies>>

-----------------------------------------------------------------------------
(* POST /auth/refresh *)

(* the tokens a client can present: every token a response has carried,    *)
(* no token at all, or bytes the service never signed                       *)
PresentableTokens == {r.token : r \in Range(refresh_tokens)} \cup {NoToken, GarbageToken}

RecordRevoked(rts, token) ==
    FindToken(rts, token) # 0 /\ rts[FindToken(rts, token)].isRevoked

HasSuccessor(token) == \E r \in rotated : r.from = token.jti

RefreshStart(token) ==
    [StartFields(token, "none") EXCEPT
        !.recRevoked = RecordRevoked(refresh_tokens, token),
        !.prior = (token.typ = "refresh" /\ HasSuccessor(token)),
        !.afterLogout = (token.typ = "refresh" /\ token.family \in loggedOut)]

(* a refresh that answers a token without record as an invalid token *)
RefreshFind_NotFoundInvalid(token) ==
    /\ CanArrive
    /\ UNCHANGED <<users, refresh_tokens, userIndexes, settings, held, now, nextJti, nextFamily,
                   rotated, loggedOut, revokedFamilies>>
    /\ IF token = NoToken
       THEN /\ Respond("refresh", 401, NoTokenMsg, "none",
                       [RefreshStart(token) EXCEPT !.cause = "no_token"])
            /\ UNCHANGED calls
       ELSE IF ~ decode_refresh_ok(token, now)
       THEN /\ Respond("refresh", 401, InvalidTokenMsg, "cleared",
                       [RefreshStart(token) EXCEPT !.cause = "decode_failed"])
            /\ UNCHANGED calls
       ELSE IF FindToken(refresh_tokens, token) = 0
       THEN /\ Respond("refresh", 401, InvalidTokenMsg, "cleared",
                       [RefreshStart(token) EXCEPT !.cause = "not_found"])
            /\ UNCHANGED calls
       ELSE LET stored == FindToken(refresh_tokens, token)
            IN /\ (stored # 0 /\ ~ refresh_tokens[stored].isRevoked) => CanIssue
               /\ calls' = Enter(
                              [IdleCall EXCEPT
                                 !.op = "refresh",
                                 !.pc = IF stored = 0 \/ refresh_tokens[stored].isRevoked
                                        THEN "rf_family" ELSE "rf_mark",
                                 !.token = token, !.stored = stored, !.at = now,
                                 !.recRevoked = RefreshStart(token).recRevoked,
                                 !.prior = RefreshStart(token).prior,
                                 !.afterLogout = RefreshStart(token).afterLogout])
               /\ last' = NoResponse

(* cookie or body, decode_refresh_token, refresh_tokens.find_one *)
RefreshFind(token) ==
    /\ CanArrive
    /\ UNCHANGED <<users, refresh_tokens, userIndexes, settings, held, now, nextJti, nextFamily,
                   rotated, loggedOut, revokedFamilies>>
    /\ IF token = NoToken
       THEN /\ Respond("refresh", 401, NoTokenMsg, "none",
                       [RefreshStart(token) EXCEPT !.cause = "no_token"])
            /\ UNCHANGED calls
       ELSE IF ~ decode_refresh_ok(token, now)
       THEN /\ Respond("refresh", 401, InvalidTokenMsg, "cleared",
                       [RefreshStart(token) EXCEPT !.cause = "decode_failed"])
            /\ UNCHANGED calls
       ELSE LET stored == FindToken(refresh_tokens, token)
            IN /\ (stored # 0 /\ ~ refresh_tokens[stored].isRevoked) => CanIssue
               /\ calls' = Enter(
                              [IdleCall EXCEPT
                                 !.op = "refresh",
                                 !.pc = IF stored = 0 \/ refresh_tokens[stored].isRevoked
                                        THEN "rf_family" ELSE "rf_mark",
                                 !.token = token, !.stored = stored, !.at = now,
                                 !.recRevoked = RefreshStart(token).recRevoked,
                                 !.prior = RefreshStart(token).prior,
                                 !.afterLogout = RefreshStart(token).afterLogout])
               /\ last' = NoResponse

(* a reuse detection that revokes the presented record and no other *)
RefreshRevokeFamily_PresentedOnly(r) ==
    /\ r \in InFlight
    /\ r.pc = "rf_family"
    /\ refresh_tokens' = IF r.stored = 0 THEN refresh_tokens
                         ELSE RevokeById(refresh_tokens, r.stored)
    /\ IF r.stored = 0
       THEN Respond("refresh", 401, NotRecognizedMsg, "cleared", Fields(r, "not_found"))
       ELSE Respond("refresh", 401, ReuseMsg, "cleared", Fields(r, "reuse"))
    /\ calls' = Leave(r)
    /\ revokedFamilies' = revokedFamilies \cup {r.token.family}
    /\ UNCHANGED <<users, userIndexes, settings, held, now, nextJti, nextFamily, rotated, loggedOut>>

(* not found or already revoked: _revoke_token_family, clear cookie, 401 *)
RefreshRevokeFamily(r) ==
    /\ r \in InFlight
    /\ r.pc = "rf_family"
    /\ refresh_tokens' = RevokeTokenFamily(refresh_tokens, r.token.family)
    /\ IF r.stored = 0
       THEN Respond("refresh", 401, NotRecognizedMsg, "cleared", Fields(r, "not_found"))
       ELSE Respond("refresh", 401, ReuseMsg, "cleared", Fields(r, "reuse"))
    /\ calls' = Leave(r)
    /\ revokedFamilies' = revokedFamilies \cup {r.token.family}
    /\ UNCHANGED <<users, userIndexes, settings, held, now, nextJti, nextFamily, rotated, loggedOut>>

(* a rotation that deletes the consumed record instead of flagging it *)
RefreshMark_Deleting(r) ==
    /\ r \in InFlight
    /\ r.pc = "rf_mark"
    /\ refresh_tokens' = SubSeq(refresh_tokens, 1, r.stored - 1)
                            \o SubSeq(refresh_tokens, r.stored + 1, Len(refresh_tokens))
    /\ calls' = Move(r, [r EXCEPT !.pc = "rf_user"])
    /\ UNCHANGED <<users, userIndexes, settings, held, now, nextJti, nextFamily, rotated,
                   loggedOut, revokedFamilies>>
    /\ last' = NoResponse

(* refresh_tokens.update_one({"_id": stored["_id"]}, isRevoked = True) *)
RefreshMark(r) ==
    /\ r \in InFlight
    /\ r.pc = "rf_mark"
    /\ refresh_tokens' = RevokeById(refresh_tokens, r.stored)
    /\ calls' = Move(r, [r EXCEPT !.pc = "rf_user",
                                  !.lostRace = ModifiedCount(refresh_tokens, r.stored) = 0])
    /\ UNCHANGED <<users, userIndexes, settings, held, now, nextJti, nextFamily, rotated,
                   loggedOut, revokedFamilies>>
    /\ last' = NoResponse

(* users.find_one({"_id": ObjectId(user_id)}) *)
RefreshUser(r) ==
    /\ r \in InFlight
    /\ r.pc = "rf_user"
    /\ UNCHANGED <<users, refresh_tokens, userIndexes, settings, held, now, nextJti, nextFamily,
                   rotated, loggedOut, revokedFamilies>>
    /\ LET uid == r.token.sub
       IN IF uid \notin DOMAIN users
          THEN /\ Respond("refresh", 401, UserNotFoundMsg, "cleared",
                          Fields(r, "user_not_found"))
               /\ calls' = Leave(r)
          ELSE /\ calls' = Move(r, [r EXCEPT !.pc = "rf_store", !.uid = uid,
                                             !.email = users[uid].email,
                                             !.role = users[uid].role])
               /\ last' = NoResponse

(* create_refresh_token(token_family=family), _store_refresh_token, cookie *)
RefreshStore(r) ==
    /\ r \in InFlight
    /\ r.pc = "rf_store"
    /\ nextJti <= MaxTokens
    /\ LET token == create_refresh_token(r.uid, r.token.family,
                                         nextJti, now)
       IN /\ refresh_tokens' = StoreRefreshToken(refresh_tokens, r.uid, token,
                                                 r.token.family, token.exp)
          /\ Respond("refresh", 200, OkMsg, "set",
                     [Fields(r, "ok") EXCEPT
                        !.refresh = token,
                        !.access = create_access_token(r.uid, r.email,
                                                       r.role, now)])
          /\ rotated' = rotated \cup {[from |-> r.token.jti, to |-> token.jti]}
    /\ nextJti' = nextJti + 1
    /\ calls' = Leave(r)
    /\ UNCHANGED <<users, userIndexes, settings, held, now, nextFamily, loggedOut, revokedFamilies>>

-----------------------------------------------------------------------------
(* POST /auth/change-password *)

(* an ID token Firebase has issued for uid *)
FirebaseIdToken(uid) ==
    [typ |-> "firebase", uid |-> uid, key |-> "securetoken.google.com"]

(* security.verify_token: firebase_admin.auth.verify_id_token *)
verify_token(bearer) ==
    bearer.typ = "firebase" /\ bearer.key = "securetoken.google.com"

(* users.find_one({"firebaseUid": uid}): position of the first match, 0 if none *)
FindUserByFirebaseUid(us, uid) ==
    IF \E i \in DOMAIN us : us[i].firebaseUid = uid
    THEN CHOOSE i \in DOMAIN us :
            /\ us[i].firebaseUid = uid
            /\ \A j \in DOMAIN us : us[j].firebaseUid = uid => i <= j
    ELSE 0

(* security.get_current_user behind HTTPBearer: <<status, detail, user>> *)
get_current_user(bearer) ==
    IF bearer = NoToken THEN <<403, NotAuthenticatedMsg, 0>>
    ELSE IF ~ verify_token(bearer) THEN <<401, InvalidBearerMsg, 0>>
    ELSE IF FindUserByFirebaseUid(users, bearer.uid) = 0
    THEN <<404, ProfileNotFoundMsg, 0>>
    ELSE <<200, OkMsg, FindUserByFirebaseUid(users, bearer.uid)>>

(* ChangePasswordRequest: currentPassword min_length=1, newPassword        *)
(* min_length=8, max_length=128                                            *)
ChangePasswordRequestValid(currentPassword, newPassword) ==
    /\ Len(currentPassword) >= 1
    /\ Len(newPassword) >= MinPasswordLength
    /\ Len(newPassword) <= MaxPasswordLength

ChangePasswordInput(bearer, currentPassword, newPassword) ==
    [bearer |-> bearer, currentPassword |-> currentPassword,
     newPassword |-> newPassword]

(* a password change that also ends the sessions of the identity *)
ChangePassword_RevokingSessions(bearer, currentPassword, newPassword) ==
    /\ CanArrive
    /\ UNCHANGED <<userIndexes, settings, held, calls, now, nextJti,
                   nextFamily, rotated, loggedOut, revokedFamilies>>
    /\ LET input == ChangePasswordInput(bearer, currentPassword, newPassword)
           auth == get_current_user(bearer)
           uid == auth[3]
           passes == /\ auth[1] = 200
                     /\ ChangePasswordRequestValid(currentPassword, newPassword)
                     /\ verify_password(currentPassword, users[uid].passwordHash)
                     /\ validate_password_strength(newPassword)[1]
       IN IF passes
          THEN /\ users' = [users EXCEPT ![uid].passwordHash =
                                            hash_password(newPassword)]
               /\ refresh_tokens' =
                     [i \in DOMAIN refresh_tokens |->
                        IF refresh_tokens[i].userId = uid
                        THEN [refresh_tokens[i] EXCEPT !.isRevoked = TRUE]
                        ELSE refresh_tokens[i]]
               /\ Respond("change_password", 200, PasswordChangedMsg, "none",
                          StartFields(input, "ok"))
          ELSE /\ UNCHANGED <<users, refresh_tokens>>
               /\ Respond("change_password", 400, CannotChangeMsg, "none",
                          StartFields(input, "no_hash"))

(* the dependency, the request model, then the handler body *)
ChangePassword(bearer, currentPassword, newPassword) ==
    /\ CanArrive
    /\ UNCHANGED <<refresh_tokens, userIndexes, settings, held, calls, now, nextJti,
                   nextFamily, rotated, loggedOut, revokedFamilies>>
    /\ LET input == ChangePasswordInput(bearer, currentPassword, newPassword)
           auth == get_current_user(bearer)
           uid == auth[3]
       IN IF auth[1] # 200
          THEN /\ Respond("change_password", auth[1], auth[2], "none",
                          StartFields(input, "not_authenticated"))
               /\ UNCHANGED users
          ELSE IF ~ ChangePasswordRequestValid(currentPassword, newPassword)
          THEN /\ Respond("change_password", 422, ValidationFailedMsg, "none",
                          StartFields(input, "request_invalid"))
               /\ UNCHANGED users
          ELSE IF users[uid].passwordHash = NoHash
          THEN /\ Respond("change_password", 400, CannotChangeMsg, "none",
                          StartFields(input, "no_hash"))
               /\ UNCHANGED users
          ELSE IF ~ verify_password(currentPassword, users[uid].passwordHash)
          THEN /\ Respond("change_password", 401, WrongCurrentMsg, "none",
                          StartFields(input, "wrong_current"))
               /\ UNCHANGED users
          ELSE IF ~ validate_password_strength(newPassword)[1]
          THEN /\ Respond("change_password", 400,
                          validate_password_strength(newPassword)[2], "none",
                          StartFields(input, "weak_password"))
               /\ UNCHANGED users
          ELSE /\ users' = [users EXCEPT ![uid].passwordHash =
                                            hash_password(newPassword)]
               /\ Respond("change_password", 200, PasswordChangedMsg, "none",
                          StartFields(input, "ok"))

-----------------------------------------------------------------------------
(* a logout that lets the decode failure reach the caller *)
Logout_Strict(token) ==
    /\ CanArrive
    /\ token \in PresentableTokens
    /\ IF token # NoToken /\ decode_refresh_ok(token, now)
       THEN /\ refresh_tokens' = RevokeTokenFamily(refresh_tokens, token.family)
            /\ loggedOut' = loggedOut \cup {token.family}
            /\ revokedFamilies' = revokedFamilies \cup {token.family}
            /\ Respond("logout", 200, LoggedOutMsg, "cleared",
                       [RefreshStart(token) EXCEPT !.cause = "ok"])
       ELSE /\ UNCHANGED <<refresh_tokens, loggedOut, revokedFamilies>>
            /\ IF token = NoToken
               THEN Respond("logout", 200, LoggedOutMsg, "cleared",
                            [RefreshStart(token) EXCEPT !.cause = "no_token"])
               ELSE Respond("logout", 401, InvalidTokenMsg, "none",
                            [RefreshStart(token) EXCEPT !.cause = "decode_failed"])
    /\ UNCHANGED <<users, userIndexes, settings, held, calls, now, nextJti, nextFamily, rotated>>

(* POST /auth/logout: best-effort decode and family revocation, then the   *)
(* cookie is cleared and the call succeeds                                  *)
Logout(token) ==
    /\ CanArrive
    /\ token \in PresentableTokens
    /\ IF token # NoToken /\ decode_refresh_ok(token, now)
       THEN /\ refresh_tokens' = RevokeTokenFamily(refresh_tokens, token.family)
            /\ loggedOut' = loggedOut \cup {token.family}
            /\ revokedFamilies' = revokedFamilies \cup {token.family}
       ELSE UNCHANGED <<refresh_tokens, loggedOut, revokedFamilies>>
    /\ Respond("logout", 200, LoggedOutMsg, "cleared",
               [RefreshStart(token) EXCEPT
                  !.cause = IF token = NoToken THEN "no_token"
                            ELSE IF decode_refresh_ok(token, now) THEN "ok"
                            ELSE "decode_failed"])
    /\ UNCHANGED <<users, userIndexes, settings, held, calls, now, nextJti, nextFamily, rotated>>

-----------------------------------------------------------------------------
(* Environment *)

(* time passes; the clock is observed once per refresh-token lifetime *)
Tick ==
    /\ now + REFRESH_TOKEN_EXPIRE_DAYS <= MaxNow
    /\ now' = now + REFRESH_TOKEN_EXPIRE_DAYS
    /\ UNCHANGED <<users, refresh_tokens, userIndexes, settings, held, calls, nextJti, nextFamily,
                   rotated, loggedOut, revokedFamilies>>
    /\ last' = NoResponse

(* _store_refresh_token is given a token value the collection holds: the   *)
(* jti drawn by secrets.token_urlsafe(16) is one drawn before, for the     *)
(* same identity and family at the same time; followed up to the first     *)
(* such draw                                                               *)
StoreExistingToken ==
    /\ Len(refresh_tokens) <= MaxTokens
    /\ \A i, j \in DOMAIN refresh_tokens :
          refresh_tokens[i].token = refresh_tokens[j].token => i = j
    /\ \E i \in DOMAIN refresh_tokens :
          /\ refresh_tokens' = StoreRefreshToken(refresh_tokens,
                                                 refresh_tokens[i].userId,
                                                 refresh_tokens[i].token,
                                                 refresh_tokens[i].family,
                                                 refresh_tokens[i].expiresAt)
          /\ last' = [NoResponse EXCEPT !.op = "_store_refresh_token",
                                        !.input = refresh_tokens[i].token,
                                        !.cause = "ok"]
    /\ UNCHANGED <<users, userIndexes, settings, held, calls, now, nextJti, nextFamily,
                   rotated, loggedOut, revokedFamilies>>

(* scripts/clear_database.py: every users document is deleted; the        *)
(* refresh_tokens collection is not among the collections it clears        *)
ClearDatabase ==
    /\ users # <<>>
    /\ users' = <<>>
    /\ UNCHANGED <<refresh_tokens, userIndexes, settings, held, calls, now, nextJti,
                   nextFamily, rotated, loggedOut, revokedFamilies>>
    /\ last' = NoResponse

(* an administrator deactivates an identity *)
Deactivate(uid) ==
    /\ uid \in DOMAIN users
    /\ users[uid].isActive
    /\ users' = [users EXCEPT ![uid].isActive = FALSE]
    /\ UNCHANGED <<refresh_tokens, userIndexes, settings, held, calls, now, nextJti, nextFamily,
                   rotated, loggedOut, revokedFamilies>>
    /\ last' = NoResponse

-----------------------------------------------------------------------------
(* Requests arrive and handlers advance in any order *)

(* RegisterRequest.role *)
Roles == {"student", "admin"}

ArriveRegister ==
    \E email \in Emails, password \in Passwords, matric \in Matrics, role \in Roles :
        RegisterFind(email, password, matric, role)

ArriveLogin ==
    \E email \in Emails, password \in Passwords :
        LoginFind(email, password)

ArriveRefresh == \E token \in PresentableTokens : RefreshFind(token)

ArriveLogout == \E token \in PresentableTokens : Logout(token)

(* create_access_token is called and its result kept by the caller *)
EncodeAccess(user_id, email, role) ==
    /\ held' = [token |-> create_access_token(user_id, email, role, now),
                args |-> <<user_id, email, role>>]
    /\ last' = NoResponse
    /\ UNCHANGED <<users, refresh_tokens, userIndexes, settings, calls, now, nextJti,
                   nextFamily, rotated, loggedOut, revokedFamilies>>

(* create_refresh_token is called and its result kept by the caller;       *)
(* token_family 0 stands for the argument left out                         *)
EncodeRefresh(user_id, token_family) ==
    /\ nextJti <= MaxTokens
    /\ LET family == IF token_family = 0 THEN nextFamily ELSE token_family
       IN held' = [token |-> create_refresh_token(user_id, family, nextJti, now),
                   args |-> <<user_id>>]
    /\ nextJti' = nextJti + 1
    /\ nextFamily' = IF token_family = 0 THEN nextFamily + 1 ELSE nextFamily
    /\ last' = NoResponse
    /\ UNCHANGED <<users, refresh_tokens, userIndexes, settings, calls, now, rotated,
                   loggedOut, revokedFamilies>>

(* decode_access_token on the token kept *)
DecodeAccess ==
    /\ held # NothingHeld
    /\ last' = [NoResponse EXCEPT
                  !.op = "decode_access_token",
                  !.cause = decode_access_token(held.token, now),
                  !.access = IF decode_access_token(held.token, now) = "ok"
                             THEN held.token ELSE NoAccess,
                  !.at = now]
    /\ UNCHANGED <<users, refresh_tokens, userIndexes, settings, held, calls, now,
                   nextJti, nextFamily, rotated, loggedOut, revokedFamilies>>

(* decode_refresh_token on the token kept *)
DecodeRefresh ==
    /\ held # NothingHeld
    /\ last' = [NoResponse EXCEPT
                  !.op = "decode_refresh_token",
                  !.cause = decode_refresh_token(held.token, now),
                  !.refresh = IF decode_refresh_token(held.token, now) = "ok"
                              THEN held.token ELSE NoToken,
                  !.at = now]
    /\ UNCHANGED <<users, refresh_tokens, userIndexes, settings, held, calls, now,
                   nextJti, nextFamily, rotated, loggedOut, revokedFamilies>>

ArriveEncodeAccess ==
    \E user_id \in 1..MaxUsers, email \in Emails, role \in Roles :
        EncodeAccess(user_id, email, role)

ArriveEncodeRefresh ==
    \E user_id \in 1..MaxUsers,
       token_family \in {0} \cup {r.family : r \in Range(refresh_tokens)} :
          EncodeRefresh(user_id, token_family)

(* the token kept is presented to POST /auth/refresh *)
ArriveRefreshHeld == held # NothingHeld /\ RefreshFind(held.token)

(* the token kept is presented to POST /auth/change-password *)
ArriveChangePasswordHeld ==
    /\ held # NothingHeld
    /\ ChangePassword(held.token, StudentPassword, AdminPassword)

ArriveLoginLegacy ==
    \E password \in Passwords \cup {AdminPassword} : LoginFind(LegacyEmail, password)

(* the access tokens the responses so far have carried, for the identities *)
(* that still exist                                                        *)
IssuedAccessTokens ==
    {create_access_token(r.userId, users[r.userId].email, users[r.userId].role,
                         r.expiresAt - REFRESH_TOKEN_EXPIRE_DAYS) :
        r \in {x \in Range(refresh_tokens) : x.userId \in DOMAIN users}}

(* what a client can put in the Authorization header *)
Bearers ==
    {NoToken, FirebaseIdToken(LegacyUid), FirebaseIdToken(UnknownUid)}
        \cup IssuedAccessTokens \cup {r.token : r \in Range(refresh_tokens)}

ArriveChangePassword ==
    \E bearer \in Bearers,
       currentPassword \in {StudentPassword, AdminPassword},
       newPassword \in Passwords \cup {AdminPassword} :
          ChangePassword(bearer, currentPassword, newPassword)

(* the init_db administrator, signed in with Firebase, changes password *)
ArriveChangePasswordLegacy ==
    \E currentPassword \in {StudentPassword, AdminPassword},
       newPassword \in {StudentPassword, AdminPassword, ShortPassword} :
          ChangePassword(FirebaseIdToken(LegacyUid), currentPassword, newPassword)

(* the token protocol under concurrent requests of the seeded identities,  *)
(* within the lifetime of the tokens                                        *)
Next ==
    \/ ArriveLogin
    \/ ArriveRefresh
    \/ ArriveLogout
    \/ \E r \in InFlight : LoginRehash(r)
    \/ \E r \in InFlight : LoginLast(r)
    \/ \E r \in InFlight : LoginStore(r)
    \/ \E r \in InFlight : RefreshRevokeFamily(r)
    \/ \E r \in InFlight : RefreshMark(r)
    \/ \E r \in InFlight : RefreshUser(r)
    \/ \E r \in InFlight : RefreshStore(r)

Spec == Init /\ [][Next]_vars

(* every operation, requests made one after another: a request arrives    *)
(* only when no handler is in flight.  No stored hash carries other         *)
(* parameters than the current ones in a database that starts empty, so    *)
(* the rehash step is never due here                                        *)
SeqNext ==
    \/ NoneInFlight /\ ArriveRegister
    \/ NoneInFlight /\ ArriveLogin
    \/ NoneInFlight /\ ArriveRefresh
    \/ NoneInFlight /\ ArriveLogout
    \/ \E r \in InFlight : RegisterInsert(r)
    \/ \E r \in InFlight : RegisterStore(r)
    \/ \E r \in InFlight : LoginLast(r)
    \/ \E r \in InFlight : LoginStore(r)
    \/ \E r \in InFlight : RefreshRevokeFamily(r)
    \/ \E r \in InFlight : RefreshMark(r)
    \/ \E r \in InFlight : RefreshUser(r)
    \/ \E r \in InFlight : RefreshStore(r)
    \/ Tick

SeqSpec == SeqInit /\ [][SeqNext]_vars

(* registration and login under concurrent requests, over both set-ups of  *)
(* the database, with identities being deactivated                          *)
IdentityNext ==
    \/ ArriveRegister
    \/ ArriveLogin
    \/ \E r \in InFlight : RegisterInsert(r)
    \/ \E r \in InFlight : RegisterStore(r)
    \/ \E r \in InFlight : LoginRehash(r)
    \/ \E r \in InFlight : LoginLast(r)
    \/ \E r \in InFlight : LoginStore(r)
    \/ \E uid \in 1..MaxUsers : Deactivate(uid)

IdentitySpec == IdentityInit /\ [][IdentityNext]_vars

(* password changes among logins and rotations, one request at a time and *)
(* within the lifetime of the tokens, by an identity that has both a       *)
(* Firebase uid and a password                                             *)
PasswordNext ==
    \/ NoneInFlight /\ ArriveLoginLegacy
    \/ NoneInFlight /\ ArriveRefresh
    \/ NoneInFlight /\ ArriveChangePassword
    \/ \E r \in InFlight : LoginLast(r)
    \/ \E r \in InFlight : LoginStore(r)
    \/ \E r \in InFlight : RefreshRevokeFamily(r)
    \/ \E r \in InFlight : RefreshMark(r)
    \/ \E r \in InFlight : RefreshUser(r)
    \/ \E r \in InFlight : RefreshStore(r)

PasswordSpec == PasswordInit /\ [][PasswordNext]_vars

(* the five endpoints served one at a time on the init_db database *)
ServiceNext ==
    \/ NoneInFlight /\ ArriveRegister
    \/ NoneInFlight /\ ArriveLoginLegacy
    \/ NoneInFlight /\ ArriveRefresh
    \/ NoneInFlight /\ ArriveLogout
    \/ NoneInFlight /\ ArriveChangePasswordLegacy
    \/ \E r \in InFlight : RegisterInsert(r)
    \/ \E r \in InFlight : RegisterStore(r)
    \/ \E r \in InFlight : LoginLast(r)
    \/ \E r \in InFlight : LoginStore(r)
    \/ \E r \in InFlight : RefreshRevokeFamily(r)
    \/ \E r \in InFlight : RefreshMark(r)
    \/ \E r \in InFlight : RefreshUser(r)
    \/ \E r \in InFlight : RefreshStore(r)

ServiceSpec == PasswordInit /\ [][ServiceNext]_vars

(* the service on the init_db database while, between two requests, an    *)
(* operator may run scripts/clear_database.py, a refresh token may be made *)
(* outside the handlers and presented, _store_refresh_token may be given a *)
(* token value a second time, and an identity may be deactivated           *)
MaintenanceNext ==
    \/ NoneInFlight /\ ArriveLoginLegacy
    \/ NoneInFlight /\ ArriveRefresh
    \/ NoneInFlight /\ ClearDatabase
    \/ NoneInFlight /\ ArriveEncodeRefresh
    \/ NoneInFlight /\ ArriveRefreshHeld
    \/ NoneInFlight /\ StoreExistingToken
    \/ NoneInFlight /\ (\E uid \in DOMAIN users : Deactivate(uid))
    \/ \E r \in InFlight : LoginLast(r)
    \/ \E r \in InFlight : LoginStore(r)
    \/ \E r \in InFlight : RefreshRevokeFamily(r)
    \/ \E r \in InFlight : RefreshMark(r)
    \/ \E r \in InFlight : RefreshUser(r)
    \/ \E r \in InFlight : RefreshStore(r)

MaintenanceSpec == MaintenanceInit /\ [][MaintenanceNext]_vars

(* the two token codecs on their own, under every environment: tokens are *)
(* made, time passes, and they are decoded or presented to the endpoints  *)
CodecNext ==
    \/ NoneInFlight /\ ArriveEncodeAccess
    \/ NoneInFlight /\ ArriveEncodeRefresh
    \/ NoneInFlight /\ DecodeAccess
    \/ NoneInFlight /\ DecodeRefresh
    \/ NoneInFlight /\ ArriveRefreshHeld
    \/ NoneInFlight /\ ArriveChangePasswordHeld
    \/ \E r \in InFlight : RefreshRevokeFamily(r)
    \/ NoneInFlight /\ Tick

CodecSpec == CodecInit /\ [][CodecNext]_vars

-----------------------------------------------------------------------------
(* Properties *)

FamilyRecords(family) == {i \in DOMAIN refresh_tokens : refresh_tokens[i].family = family}

FamilyAllRevoked(family) == \A i \in FamilyRecords(family) : refresh_tokens[i].isRevoked

Successors(token) == {x \in rotated : x.from = token.jti}

Expired(token, t) == token.exp < t

(* C1: over all interleavings of concurrent refresh calls presenting the   *)
(* same still-active token, at most one successor is ever issued from it   *)
C1_AtMostOneRotation ==
    \A x, y \in rotated : x.from = y.from => x.to = y.to

(* C2 as stated: with refresh calls made one after another, refresh(t)     *)
(* succeeds exactly once and every subsequent refresh(t) fails with        *)
(* TokenReuseDetected (401)                                                *)
C2_SingleUseAsStated ==
    /\ \A x, y \in rotated : x.from = y.from => x.to = y.to
    /\ (last.op = "refresh" /\ last.prior) =>
          (last.status = 401 /\ last.detail = ReuseMsg)

(* C2 amended: with refresh calls made one after another, a refresh(t) of  *)
(* an unexpired token whose record is un-revoked succeeds, no token gets   *)
(* two successors, and every refresh(t) after the successful one fails     *)
(* with 401: TokenReuseDetected while t is unexpired, InvalidToken once t  *)
(* has expired                                                             *)
C2_SingleUse ==
    /\ \A x, y \in rotated : x.from = y.from => x.to = y.to
    /\ (last.op = "refresh" /\ last.prior) =>
          /\ last.status = 401
          /\ last.detail = IF Expired(last.input, last.at) THEN InvalidTokenMsg
                           ELSE ReuseMsg
    /\ (/\ last.op = "refresh"
        /\ last.input.typ = "refresh"
        /\ ~ last.recRevoked
        /\ ~ Expired(last.input, last.at)) =>
          (last.status = 200 /\ Successors(last.input) # {})

C2_Witness ==
    /\ last.op = "refresh"
    /\ last.prior
    /\ last.detail = ReuseMsg
    /\ Cardinality(Successors(last.input)) = 1

(* C3 as stated: when refresh is presented a token whose record is already *)
(* revoked, the call fails and every record of the token's family is       *)
(* revoked when it returns                                                 *)
C3_FamilyRevocationAsStated ==
    (last.op = "refresh" /\ last.recRevoked) =>
        (last.status = 401 /\ FamilyAllRevoked(last.input.family))

(* C3 amended: when refresh is presented an unexpired token whose record   *)
(* is already revoked, every record of the token's family is revoked when  *)
(* the call returns; a refresh of a token whose record is revoked never    *)
(* succeeds, so after a replay of t1 in the chain t1 -> t2 -> t3 a         *)
(* refresh(t3) fails                                                       *)
C3_FamilyRevocation ==
    (last.op = "refresh" /\ last.recRevoked) =>
        /\ last.status = 401
        /\ ~ Expired(last.input, last.at) =>
              (last.detail = ReuseMsg /\ FamilyAllRevoked(last.input.family))

(* t1 is replayed after t1 -> t2 -> t3 *)
C3_Witness ==
    /\ last.op = "refresh"
    /\ last.recRevoked
    /\ last.detail = ReuseMsg
    /\ \E x, y \in rotated : x.from = last.input.jti /\ y.from = x.to
    /\ Cardinality(FamilyRecords(last.input.family)) = 3
    /\ FamilyAllRevoked(last.input.family)

(* C4: after a login's token has been rotated N times in sequence, the     *)
(* records descended from the login have pairwise distinct token values,   *)
(* all carry the login's family, and exactly one of them, the most         *)
(* recently issued, is un-revoked                                          *)
C4_FamilyContinuity ==
    (last.op = "refresh" /\ last.status = 200) =>
        LET F == last.input.family
            newest == CHOOSE i \in FamilyRecords(F) : \A j \in FamilyRecords(F) : j <= i
        IN /\ \A i, j \in FamilyRecords(F) :
                 refresh_tokens[i].token = refresh_tokens[j].token => i = j
           /\ \A x \in rotated : \A i, j \in DOMAIN refresh_tokens :
                 (refresh_tokens[i].token.jti = x.from /\ refresh_tokens[j].token.jti = x.to)
                    => refresh_tokens[j].family = refresh_tokens[i].family
           /\ \A i \in FamilyRecords(F) : refresh_tokens[i].token.family = F
           /\ refresh_tokens[newest].token = last.refresh
           /\ \A i \in FamilyRecords(F) : refresh_tokens[i].isRevoked <=> i # newest
           /\ Cardinality(FamilyRecords(F)) =
                 Cardinality({x \in rotated : \E i \in FamilyRecords(F) :
                                 refresh_tokens[i].token.jti = x.from}) + 1

(* the second rotation in a row of a login's token *)
C4_Witness ==
    /\ last.op = "refresh"
    /\ last.status = 200
    /\ Cardinality(FamilyRecords(last.input.family)) = 3
    /\ \E x \in rotated : x.to = last.input.jti

(* the families of the tokens used by the request that takes the step *)
ActorFamilies ==
    {r.token.family : r \in {q \in BagToSet(calls) : CopiesIn(q, calls') < CopiesIn(q, calls)}}
        \cup (IF last'.op = "logout" THEN {last'.input.family} ELSE {})

C5_Step ==
    /\ \A i \in DOMAIN refresh_tokens :
          refresh_tokens'[i].isRevoked # refresh_tokens[i].isRevoked
             => refresh_tokens[i].family \in ActorFamilies
    /\ (last'.op = "login" /\ last'.status = 200) =>
          /\ \A i \in DOMAIN refresh_tokens :
                refresh_tokens[i].family # last'.refresh.family
          /\ \E i \in DOMAIN refresh_tokens' :
                /\ i \notin DOMAIN refresh_tokens
                /\ refresh_tokens'[i].family = last'.refresh.family

(* C5: every successful login creates a family carried by no record that   *)
(* existed before the call, and no refresh, reuse detection or logout made *)
(* with a token of one family changes isRevoked on a record of another     *)
(* family, another family of the same identity included                    *)
C5_IndependentFamilies == [][C5_Step]_vars

(* a family has just been revoked while the same identity holds an         *)
(* un-revoked token of another family                                      *)
C5_Witness ==
    /\ last.op \in {"refresh", "logout"}
    /\ last.input.typ = "refresh"
    /\ FamilyRecords(last.input.family) # {}
    /\ FamilyAllRevoked(last.input.family)
    /\ \E i \in DOMAIN refresh_tokens :
          /\ refresh_tokens[i].family # last.input.family
          /\ refresh_tokens[i].userId = last.input.sub
          /\ ~ refresh_tokens[i].isRevoked

(* C6: logout never fails to the caller: for an absent, malformed,         *)
(* expired, already revoked or valid token it returns success and clears   *)
(* the refresh cookie, the second time as the first                        *)
C6_LogoutNeverFails ==
    last.op = "logout" =>
        /\ last.status = 200
        /\ last.detail = LoggedOutMsg
        /\ last.cookie = "cleared"
        /\ last.refresh = NoToken

(* logout is called again with the token of a family already logged out *)
C6_Witness ==
    /\ last.op = "logout"
    /\ last.input.typ = "refresh"
    /\ last.afterLogout
    /\ last.recRevoked
    /\ last.status = 200

(* C7: after logout is called with a decodable refresh token of family F,  *)
(* every record of F is revoked, so every later refresh with any token of  *)
(* F fails                                                                 *)
C7_LogoutEndsFamily ==
    /\ (last.op = "logout" /\ last.cause = "ok") => FamilyAllRevoked(last.input.family)
    /\ (last.op = "refresh" /\ last.afterLogout) => last.status # 200

C9_InactiveIndistinguishable ==
    (last.op = "login" /\ last.cause = "inactive") =>
        (last.status = 401 /\ last.detail = InvalidCredentialsMsg)

(* C10: at most one Identity exists per email in every reachable state;    *)
(* of concurrent register calls with the same email at most one creates an *)
(* Identity and the others fail with 409                                   *)
C10_UniqueEmail ==
    /\ \A i, j \in DOMAIN users : users[i].email = users[j].email => i = j
    /\ (last.op = "register" /\ last.cause \in {"email_exists", "duplicate_key"}) =>
          last.status = 409

(* a register call that passed the email check loses the insert to a       *)
(* concurrent register call with the same email                            *)
C10_Witness ==
    /\ last.op = "register"
    /\ last.cause = "duplicate_key"
    /\ last.detail = DuplicateKeyMsg("email")
    /\ last.status = 409

(* the rule messages of validate_password_strength *)
PolicyMessages ==
    {"Password must be at least 8 characters long",
     "Password must contain at least one uppercase letter",
     "Password must contain at least one lowercase letter",
     "Password must contain at least one digit",
     "Password must contain at least one special character"}

(* C11: register fails with 400 and a message naming the violated rule     *)
(* exactly when the password is shorter than 8 characters or lacks an      *)
(* uppercase letter, a lowercase letter, a digit or a symbol; "short"      *)
(* gives 400 with the minimum-length message, "nouppercase1!" gives 400    *)
(* with the missing-uppercase message                                      *)
C11_PasswordPolicy ==
    /\ \A p \in Passwords :
          validate_password_strength(p)[1] <=>
             /\ Len(p) >= MinPasswordLength
             /\ Range(p) \cap UpperChars # {}
             /\ Range(p) \cap LowerChars # {}
             /\ Range(p) \cap DigitChars # {}
             /\ Range(p) \cap SpecialChars # {}
    /\ (last.op = "register" /\ last.cause \in {"request_invalid", "weak_password"}) =>
          (last.status = 400 /\ last.detail \in PolicyMessages)
    /\ (last.op = "register" /\ last.status = 400) => last.cause = "weak_password"

C12_Step ==
    /\ \A r \in InFlight :
          (r.pc = "login_rehash" /\ CopiesIn(r, calls') < CopiesIn(r, calls)) =>
             /\ verify_password(r.password, users[r.uid].passwordHash)
             /\ verify_password(r.password, users'[r.uid].passwordHash)
             /\ ~ check_needs_rehash(users'[r.uid].passwordHash)
    /\ (last'.op = "login" /\ last'.status = 200) =>
          ~ check_needs_rehash(users'[last'.access.sub].passwordHash)

(* C12: when the stored hash was made with parameters other than the       *)
(* current ones, a successful login leaves a stored hash that no longer    *)
(* needs rehash, and the login's password verifies against the stored      *)
(* hash before and after the rehash                                        *)
C12_RehashOnLogin == [][C12_Step]_vars

(* a login of the seeded student has returned and the hash that was made   *)
(* with the old parameters now carries the current ones                    *)
C12_Witness ==
    /\ last.op = "login"
    /\ last.status = 200
    /\ check_needs_rehash(FixCloudUsersSeed(OldParams)[last.access.sub].passwordHash)
    /\ users[last.access.sub].passwordHash.params = CurrentParams
    /\ verify_password(StudentPassword, users[last.access.sub].passwordHash)

(* refresh would rotate the token: it decodes, its record is found and is  *)
(* not revoked, and the identity it names exists                           *)
Rotatable(token) ==
    /\ decode_refresh_ok(token, now)
    /\ FindToken(refresh_tokens, token) # 0
    /\ ~ refresh_tokens[FindToken(refresh_tokens, token)].isRevoked
    /\ token.sub \in DOMAIN users

C13_Step ==
    /\ last'.op = "change_password" =>
          /\ refresh_tokens' = refresh_tokens
          /\ \A r \in Range(refresh_tokens) : Rotatable(r.token) => Rotatable(r.token)'
    /\ (/\ last'.op = "refresh"
        /\ last'.input.typ = "refresh"
        /\ ~ last'.recRevoked
        /\ ~ Expired(last'.input, last'.at)) => last'.status = 200

(* C13: changePassword leaves every refresh token record unchanged: each   *)
(* token that was un-revoked and unexpired before a successful password    *)
(* change can still be rotated after it                                    *)
C13_ChangePasswordKeepsSessions == [][C13_Step]_vars

(* a password change has succeeded while the identity held a live token *)
C13_Witness ==
    /\ last.op = "change_password"
    /\ last.status = 200
    /\ \E r \in Range(refresh_tokens) :
          /\ Rotatable(r.token)
          /\ users[r.userId].firebaseUid = last.input.bearer.uid

(* the outcomes of get_current_user that end the request *)
AuthFailures == {"not_authenticated"}

C14_Step ==
    (last'.op = "change_password" /\ last'.cause \notin AuthFailures) =>
        LET rq == last'.input
            uid == FindUserByFirebaseUid(users, rq.bearer.uid)
        IN IF ~ verify_password(rq.currentPassword, users[uid].passwordHash)
           THEN last'.status = 401 /\ users' = users
           ELSE IF ~ validate_password_strength(rq.newPassword)[1]
           THEN last'.status = 400 /\ users' = users
           ELSE /\ last'.status = 200
                /\ users' = [users EXCEPT ![uid].passwordHash =
                                             hash_password(rq.newPassword)]

(* C14: changePassword replaces the stored hash only when currentPassword  *)
(* verifies against it and newPassword satisfies the strength policy;      *)
(* otherwise it fails, with 401 for a wrong current password, checked      *)
(* first, and 400 for a weak new password, and leaves the hash unchanged   *)
C14_ChangePasswordChecks == [][C14_Step]_vars

(* C15: an unexpired access token returned by register, login or refresh   *)
(* for an identity is accepted by change-password as that identity         *)
C15_AccessTokenAuthenticates ==
    (/\ last.op = "change_password"
     /\ last.input.bearer \in IssuedAccessTokens
     /\ decode_access_token(last.input.bearer, last.at) = "ok") =>
        last.cause \notin AuthFailures

C17_TokenClassesSeparate ==
    /\ (last.op = "decode_refresh_token" /\ held.token.typ = "access") =>
            last.cause # "ok"
    /\ (last.op = "decode_access_token" /\ held.token.typ = "refresh") =>
            last.cause # "ok"
    /\ (last.op = "refresh" /\ last.input.typ = "access") =>
            (last.status = 401 /\ last.refresh = NoToken /\ last.access = NoAccess)
    /\ (last.op = "change_password" /\ last.input.bearer.typ = "refresh") =>
            last.status = 401

C17_Witness ==
    /\ SECRET_KEY = REFRESH_SECRET_KEY
    /\ last.op = "decode_refresh_token"
    /\ held.token.typ = "access"
    /\ ExpMinutes(held.token) >= now * MinutesPerDay
    /\ last.cause = "JWTError"

(* C19: in production with the access or the refresh secret not configured *)
(* the service does not run: no token is ever made or decoded, since that  *)
(* could only be done with a secret the process generated for itself.      *)
C19_ProductionNeedsSecrets ==
    (/\ Environment = "production"
     /\ (settings.JWT_SECRET_KEY = Missing \/ settings.JWT_REFRESH_SECRET_KEY = Missing))
    => (held = NothingHeld /\ last = NoResponse)

(* C18: a successful register, login or refresh adds exactly one record to *)
(* refresh_tokens, not revoked, whose token is the refresh token of the    *)
(* TokenPair returned and the value of the refresh cookie; the access      *)
(* token is in the body only and no cookie carries it.                     *)
C18_Step ==
    (last'.status = 200 /\ last'.op \in {"register", "login", "refresh"}) =>
        /\ Len(refresh_tokens') = Len(refresh_tokens) + 1
        /\ \A i \in 1..Len(refresh_tokens) : refresh_tokens'[i] = refresh_tokens[i]
        /\ refresh_tokens'[Len(refresh_tokens')].token = last'.refresh
        /\ ~ refresh_tokens'[Len(refresh_tokens')].isRevoked
        /\ last'.refresh.typ = "refresh"
        /\ last'.access.typ = "access"
        /\ {c.key : c \in last'.cookies} = {REFRESH_COOKIE_NAME}
        /\ \A c \in last'.cookies : c.value = last'.refresh

C18_OneRecordPerTokenPair == [][C18_Step]_vars

C18_Witness ==
    /\ last.op = "refresh"
    /\ last.status = 200
    /\ Len(refresh_tokens) = 2
    /\ refresh_tokens[2].token = last.refresh
    /\ ~ refresh_tokens[2].isRevoked
    /\ \E c \in last.cookies : c.value = last.refresh

(* C20: when refresh calls race on the same active token, a call whose     *)
(* update_one does not win the revocation (the record was revoked by       *)
(* another refresh in between) issues no TokenPair and ends as token      *)
(* reuse.                                                                  *)
C20_LoserIssuesNothing ==
    (last.op = "refresh" /\ last.lostRace /\ last.input.family \notin loggedOut) =>
        /\ last.status = 401
        /\ last.detail = ReuseMsg
        /\ last.refresh = NoToken
        /\ last.access = NoAccess

(* C21: once _revoke_token_family has run for a family, in every later     *)
(* state every record of the family is revoked, a refresh in flight at the *)
(* time included, and no refresh with a token of the family returns 200.   *)
C21_FamilyRevokedTerminal ==
    /\ \A f \in revokedFamilies : FamilyAllRevoked(f)
    /\ (last.op = "refresh" /\ last.status = 200) =>
            last.input.family \notin revokedFamilies

(* C22: a refresh call that has revoked the presented record as consumed   *)
(* returns either with a successor record stored in the same family or     *)
(* with a 5xx error, never otherwise.                                      *)
C22_ConsumedHasSuccessor ==
    [][
    \A r \in InFlight :
        (r.op = "refresh" /\ r.pc \in {"rf_user", "rf_store"} /\ calls' = Leave(r)) =>
            \/ last'.status >= 500
            \/ /\ last'.status = 200
               /\ Len(refresh_tokens') = Len(refresh_tokens) + 1
               /\ refresh_tokens'[Len(refresh_tokens')].family = r.token.family
               /\ refresh_tokens'[Len(refresh_tokens')].token = last'.refresh
    ]_vars

(* C23: over register, login, refresh, logout and change-password calls no *)
(* record of refresh_tokens goes from revoked to un-revoked, none is       *)
(* deleted, and none changes in any field but isRevoked.                   *)
C23_RecordsOnlyGetRevoked ==
    [][
    /\ Len(refresh_tokens') >= Len(refresh_tokens)
    /\ \A i \in DOMAIN refresh_tokens :
          /\ refresh_tokens[i].isRevoked => refresh_tokens'[i].isRevoked
          /\ [refresh_tokens'[i] EXCEPT !.isRevoked = FALSE]
                = [refresh_tokens[i] EXCEPT !.isRevoked = FALSE]
    ]_vars

(* a refresh has rotated a token and a logout has ended the family, while  *)
(* a registered identity holds a live one                                  *)
C23_Witness ==
    /\ last.op = "logout"
    /\ last.cause = "ok"
    /\ rotated # {}
    /\ \E i, j \in DOMAIN refresh_tokens :
          /\ refresh_tokens[i].isRevoked
          /\ ~ refresh_tokens[j].isRevoked
          /\ refresh_tokens[j].userId > 1

(* the answers the service gives as token reuse: 401, the family revoked,  *)
(* the cookie cleared                                                      *)
TokenReuseDetected(resp) ==
    /\ resp.status = 401
    /\ resp.detail \in {NotRecognizedMsg, ReuseMsg}
    /\ resp.cookie = "cleared"
    /\ resp.refresh = NoToken
    /\ resp.access = NoAccess

(* C24: a refresh with a signature-valid, unexpired refresh token that has *)
(* no record revokes every record of the family in the token's claims,     *)
(* clears the cookie, fails as token reuse (401) and issues nothing.       *)
C24_UnknownTokenRevokesFamily ==
    (/\ last.op = "refresh"
     /\ last.input.typ = "refresh"
     /\ decode_refresh_ok(last.input, last.at)
     /\ FindToken(refresh_tokens, last.input) = 0) =>
        /\ TokenReuseDetected(last)
        /\ last.detail = NotRecognizedMsg
        /\ FamilyAllRevoked(last.input.family)

(* the unknown token named the family of a record that login had stored *)
C24_Witness ==
    /\ last.op = "refresh"
    /\ decode_refresh_ok(last.input, last.at)
    /\ FindToken(refresh_tokens, last.input) = 0
    /\ last.status = 401
    /\ \E i \in FamilyRecords(last.input.family) : refresh_tokens[i].isRevoked

(* C25: a refresh with a token that does not decode (bad signature, wrong  *)
(* class, past its expiry) clears the cookie, fails with 401 invalid token *)
(* and leaves every record as it was, whether the token's record was       *)
(* revoked or not: an expired token replayed revokes no family.            *)
C25_UndecodableChangesNothing ==
    [][
    (/\ last'.op = "refresh"
     /\ last'.input # NoToken
     /\ decode_refresh_token(last'.input, last'.at) # "ok") =>
        /\ last'.status = 401
        /\ last'.detail = InvalidTokenMsg
        /\ last'.cookie = "cleared"
        /\ last'.refresh = NoToken
        /\ refresh_tokens' = refresh_tokens
        /\ revokedFamilies' = revokedFamilies
    ]_vars

(* a consumed token is replayed after its expiry while its successor lives *)
C25_Witness ==
    /\ last.op = "refresh"
    /\ Expired(last.input, last.at)
    /\ last.recRevoked
    /\ last.status = 401
    /\ \E i \in FamilyRecords(last.input.family) : ~ refresh_tokens[i].isRevoked

(* C26: refresh_tokens holds one record per token value: an insert of a    *)
(* token value the collection holds already fails as a duplicate and       *)
(* leaves the collection as it was.                                        *)
C26_OneRecordPerToken ==
    [][
    /\ \A i, j \in DOMAIN refresh_tokens' :
          refresh_tokens'[i].token = refresh_tokens'[j].token => i = j
    /\ (/\ last'.op = "_store_refresh_token"
        /\ FindToken(refresh_tokens, last'.input) # 0) =>
          /\ last'.cause = "DuplicateKeyError"
          /\ refresh_tokens' = refresh_tokens
    ]_vars

(* C27: while an identity is deactivated neither login nor refresh returns *)
(* a token pair for it, not even a refresh with a token issued before the  *)
(* deactivation.                                                           *)
C27_NoTokensWhenDeactivated ==
    (last.op \in {"login", "refresh"} /\ last.status = 200) =>
        /\ last.refresh.sub \in DOMAIN users
        /\ users[last.refresh.sub].isActive

(* C28: a login that fails (unknown email, no password hash, deactivated   *)
(* identity, wrong password) changes nothing: no record is inserted, the   *)
(* users documents, their password hash and last login included, are as    *)
(* before, and no cookie is set.                                           *)
C28_FailedLoginChangesNothing ==
    [][
    (last'.op = "login" /\ last'.status # 200) =>
        /\ last'.cause \in {"no_user", "no_hash", "inactive", "bad_password"}
        /\ refresh_tokens' = refresh_tokens
        /\ users' = users
        /\ last'.cookie = "none"
        /\ last'.cookies = {}
        /\ last'.refresh = NoToken
        /\ last'.access = NoAccess
    ]_vars

(* the login of a deactivated identity that holds a live token is refused *)
C28_Witness ==
    /\ last.op = "login"
    /\ last.cause = "inactive"
    /\ \E r \in Range(refresh_tokens) : Rotatable(r.token)

(* C29: whatever role a register request asks for, "admin" included, the   *)
(* identity it creates has role "student" and the access token it returns  *)
(* carries role "student".                                                 *)
C29_RegisterGrantsStudentOnly ==
    (last.op = "register" /\ last.status = 200) =>
        /\ users[last.refresh.sub].role = "student"
        /\ last.access.role = "student"
        /\ last.access.sub = last.refresh.sub

C29_Witness ==
    /\ last.op = "register"
    /\ last.status = 200
    /\ last.asked = "admin"
    /\ users[last.access.sub].role = "student"

(* C30: with the unique indexes of create_indexes on users in place, a     *)
(* register call whose password conforms to the policy and whose email is  *)
(* not yet present succeeds and creates the Identity, however many         *)
(* identities were registered before.                                      *)
C30_RegisterSucceedsForNewEmail ==
    (/\ last.op = "register"
     /\ last.cause \notin {"request_invalid", "weak_password", "email_exists"}) =>
        /\ last.status = 200
        /\ last.refresh.sub \in DOMAIN users
        /\ last.cause # "duplicate_key"


====
